---- MODULE Spec2Model ----
(***************************************************************************)
(* Model of the DVB-CSA / AES descrambling pipe upipe_dvbcsa_dec           *)
(* (lib/upipe-dvbcsa decrypt pipe): key register, batch buffer, hold       *)
(* queue, deadline pump and self-reference.                                *)
(*                                                                         *)
(* The C handlers are translated as operators over a record holding the   *)
(* fields of struct upipe_dvbcsa_dec; each action applies one whole        *)
(* handler to the current record.                                          *)
(***************************************************************************)
EXTENDS Integers, Sequences, FiniteSets, TLC

\* ------------------------------------------------------------------ bounds
\* number of items (packets and flow definitions) fed to the pipe
MaxInputs == 3
\* number of SetKey control calls
MaxSetKey == 2
\* dvbcsa_bs_batch_size() of the build
BatchSize == 2
\* references held by external owners after construction
ExtRefs == 1

\* --------------------------------------------------------------- constants
TS_SIZE == 188
TS_HEADER_SIZE == 4
TS_SCRAMBLING_EVEN == 2
TS_SCRAMBLING_ODD == 3
\* DVBCSA_LATENCY, in model clock ticks (5 ms)
DVBCSA_LATENCY == 5
\* first adaptation field length refused by the input handler
AF_LIMIT == 183
\* length of an encoded control word from which the AES backend is used
AES_CW_LEN == 32
\* ~0xf on the low 31 bits
NOT_0XF == 2147483632

NULL == [null |-> TRUE]
\* an attribute that is absent from a uref is the empty set, a present one
\* the singleton of its value
Absent == {}
Attr(v) == {v}

Modes == {"CSA", "CSA_BS", "AES"}

\* ------------------------------------------------------------ input domain
Pids == {1, 2}
\* pids the application adds to / removes from the descrambling list
CtlPids == {1}
\* adaptation field length bytes tried
AfLengths == {7, 182, 183}
\* steps of the input handler that can fail on a packet
PktFails == {"none", "peek", "extract", "copy", "write", "aes"}
\* latency attribute of an input flow definition (NULL: absent)
FlowLatencies == {Absent, Attr(3)}
\* latency attribute of the flow definition given at construction
AllocLatencies == {Absent, Attr(2)}

\* TS packets: plain ones over the scrambling bits and the payload flag,
\* one on a pid that is never listed, ones with an adaptation field, and
\* ones on which a step of the handler fails
Packets ==
    [kind : {"pkt"}, sc : 0..3, payload : BOOLEAN, af : {FALSE}, afl : {0},
     pid : CtlPids, fail : {"none"}]
    \cup
    [kind : {"pkt"}, sc : {TS_SCRAMBLING_EVEN}, payload : {TRUE},
     af : {FALSE}, afl : {0}, pid : Pids \ CtlPids, fail : {"none"}]
    \cup
    [kind : {"pkt"}, sc : {TS_SCRAMBLING_EVEN, TS_SCRAMBLING_ODD},
     payload : {TRUE}, af : {TRUE}, afl : AfLengths, pid : CtlPids,
     fail : {"none"}]
    \cup
    [kind : {"pkt"}, sc : {TS_SCRAMBLING_EVEN},
     payload : {TRUE}, af : {TRUE}, afl : {7}, pid : CtlPids,
     fail : PktFails \ {"none"}]

\* control words as C strings: length and whether every character is a
\* hexadecimal digit
KeyStrings ==
    [len : {0, 16, 17, 32}, hex : {TRUE}] \cup [len : {16}, hex : {FALSE}]

\* backend call of SetKey that fails: 0 none, 1 and 2 the first and second
\* call made for the even slot, 3 and 4 those made for the odd slot
KeyFails == 0..4

\* ----------------------------------------------------------- collaborators
\* ustring_to_dvbcsa_cw: length of the part of the string that was parsed
cw_len(k) ==
    IF ~k.hex THEN 0
    ELSE IF k.len >= 32 THEN 32
    ELSE IF k.len >= 16 THEN 16
    ELSE IF k.len >= 12 THEN 12
    ELSE 0

\* upipe_dvbcsa_common_check_pid
check_pid(s, pid) == pid \in s.pids

\* upipe_dvbcsa_dec_check_input: true when no uref is retained
check_input(s) == s.urefs = <<>>

\* upipe_dvbcsa_dec_hold_input
hold_input(s, uref) == [s EXCEPT !.urefs = Append(@, uref)]

\* upipe_dvbcsa_dec_output: hands the uref to the output pipe; pend records
\* how many payloads were in the batch at that time
output(s, uref) ==
    [s EXCEPT !.out = Append(@, [uref EXCEPT !.pend = Len(s.batch)])]

\* upipe_dvbcsa_dec_set_upump(upipe, NULL): stops and frees the pump
set_upump_null(s) == [s EXCEPT !.upump = FALSE]

\* upipe_dvbcsa_dec_wait_upump: allocates and starts a one-shot timer when
\* a pump manager is attached
wait_upump(s) == [s EXCEPT !.upump = s.upump_mgr]

\* upipe_use
upipe_use(s) ==
    [s EXCEPT !.refcount = @ + 1, !.nb_use = @ + 1]

\* uref_free
uref_free(s, uref) == [s EXCEPT !.freed = Append(@, uref)]

\* uref_clock_get_latency with the caller's default
get_latency(uref, default) ==
    IF uref.lat = Absent THEN default ELSE CHOOSE v \in uref.lat : TRUE

\* index of a key slot
slot(odd) == IF odd THEN 1 ELSE 0

\* ------------------------------------------------------------------ state
VARIABLES
    mode,        \* enum mode
    key,         \* key[2] / key_bs[2] / aes[2]: NULL or the installed key
    odd,         \* parity of the batch under construction; never read
                 \* before the first batched packet has set it
    batch,       \* batch[0..current-1] with mapped[]: <<[id, hs, len]>>
    urefs,       \* retained urefs, oldest first
    upump,       \* TRUE when the deadline pump is allocated and started
    upump_mgr,   \* TRUE when a pump manager is attached
    refcount,    \* urefcount of the pipe
    flow_def,    \* attributes of the output flow definition, NULL before
                 \* the first one
    latency,     \* common->latency
    pids,        \* common->pids
    dead,        \* upipe_dvbcsa_dec_free has run
    nb_in,       \* items given to the pipe so far
    nb_setkey,   \* SetKey calls so far
    out,         \* what the last handler call sent downstream, in order
    freed,       \* the urefs the last handler call released unsent
    decrypts,    \* dvbcsa_bs_decrypt calls made by the last handler call
    hi,          \* highest id sent downstream before the last call
    ret,         \* what the last handler call returned
    op,          \* the handler that was called last
    nb_use,      \* upipe_use calls made by the last handler call
    nb_release,  \* upipe_release calls made by flush in the last call
    fault,       \* undefined behaviour met so far: "none", "null_key"
                 \* (dvbcsa_bs_decrypt given an empty slot) or
                 \* "use_after_free" (the pipe used after its release)
    alloc_flow_def, \* the pipe was allocated with a flow definition
    arg,         \* arguments of the last call, in the specifications that
                 \* record them (NULL elsewhere)
    ext          \* references external owners still hold

vars == <<mode, key, odd, batch, urefs, upump, upump_mgr, refcount, flow_def,
          latency, pids, dead, nb_in, nb_setkey, out, freed, decrypts, hi,
          ret, op, nb_use, nb_release, fault,
          alloc_flow_def, arg, ext>>

\* the pipe as one record, the form the handlers below work on
Pipe ==
    [mode |-> mode, key |-> key, odd |-> odd, batch |-> batch,
     urefs |-> urefs, upump |-> upump, upump_mgr |-> upump_mgr,
     refcount |-> refcount, flow_def |-> flow_def, latency |-> latency,
     pids |-> pids, dead |-> dead, nb_in |-> nb_in, nb_setkey |-> nb_setkey,
     out |-> out, freed |-> freed, decrypts |-> decrypts, hi |-> hi,
     ret |-> ret, nb_use |-> nb_use, nb_release |-> nb_release,
     fault |-> fault, ub |-> "stop", halt |-> FALSE]

Becomes(s) ==
    /\ mode' = s.mode /\ key' = s.key /\ odd' = s.odd /\ batch' = s.batch
    /\ urefs' = s.urefs /\ upump' = s.upump /\ upump_mgr' = s.upump_mgr
    /\ refcount' = s.refcount /\ flow_def' = s.flow_def
    /\ latency' = s.latency /\ pids' = s.pids /\ dead' = s.dead
    /\ nb_in' = s.nb_in /\ nb_setkey' = s.nb_setkey /\ out' = s.out
    /\ freed' = s.freed /\ decrypts' = s.decrypts /\ hi' = s.hi
    /\ ret' = s.ret /\ nb_use' = s.nb_use /\ nb_release' = s.nb_release
    /\ fault' = s.fault

RECURSIVE MaxId(_)
MaxId(q) == IF q = <<>> THEN 0
            ELSE LET m == MaxId(Tail(q)) IN
                 IF Head(q).id > m THEN Head(q).id ELSE m

\* what an undefined operation does: the process stops there, or it goes on
\* as if the operation had been defined
UBOutcomes == {"stop", "goes_on"}

\* start of a handler call: the records of the previous call are closed;
\* ub is what undefined behaviour does if the call meets it
Enter(s, ub) ==
    [s EXCEPT !.ub = ub, !.out = <<>>, !.freed = <<>>, !.decrypts = <<>>,
              !.hi = IF MaxId(s.out) > s.hi THEN MaxId(s.out) ELSE s.hi,
              !.nb_use = 0, !.nb_release = 0, !.ret = "NONE"]

\* the handler goes on after a flush: on a pipe that the flush has freed
\* this is a use after free
Resume(f) ==
    IF f.halt \/ ~f.dead THEN f
    ELSE [f EXCEPT !.fault = "use_after_free", !.halt = (f.ub = "stop")]

\* ----------------------------------------------------------- key register
\* free_key that frees and clears the even slot only
free_key_even_only(s) ==
    [s EXCEPT !.key[0] = NULL]

\* upipe_dvbcsa_dec_free_key: frees both slots in the current mode and
\* clears them
upipe_dvbcsa_dec_free_key(s) ==
    [s EXCEPT !.key = [i \in 0..1 |-> NULL]]

\* a key object created by the n-th SetKey call for slot i in mode m; iv is
\* the chaining state of a cipher handle: "zero" when opened, "cissa" once
\* the IV of the BISS2 specification is set, "chained" after data went
\* through it
NewKey(n, i, m) == [gen |-> n, slot |-> i, mode |-> m, iv |-> "zero"]

\* ----------------------------------------------------------------- release
\* free that sends the retained urefs downstream
free_sending(s) ==
    LET k == upipe_dvbcsa_dec_free_key(s) IN
    [k EXCEPT !.dead = TRUE,
              !.batch = <<>>,
              !.upump = FALSE,
              !.upump_mgr = FALSE,
              !.out = @ \o s.urefs,
              !.urefs = <<>>]

\* upipe_dvbcsa_dec_free: unmaps the batched urefs, frees the keys, the
\* batch and the retained urefs; nothing is decrypted or sent
upipe_dvbcsa_dec_free(s) ==
    LET k == upipe_dvbcsa_dec_free_key(s) IN
    [k EXCEPT !.dead = TRUE,
              !.batch = <<>>,
              !.upump = FALSE,
              !.upump_mgr = FALSE,
              !.freed = @ \o s.urefs,
              !.urefs = <<>>]

\* urefcount_release: the last reference frees the pipe
urefcount_release(s) ==
    LET r == [s EXCEPT !.refcount = @ - 1] IN
    IF r.refcount = 0 THEN upipe_dvbcsa_dec_free(r) ELSE r

\* ------------------------------------------------------------- flow format
\* set_flow_def_real that leaves the latency attribute as it came
out_latency_same(s, uref) == uref.lat

\* latency published by upipe_dvbcsa_dec_set_flow_def_real
out_latency(s, uref) ==
    IF s.mode = "CSA_BS"
    THEN Attr(get_latency(uref, 0) + s.latency + DVBCSA_LATENCY)
    ELSE uref.lat

\* upipe_dvbcsa_dec_set_flow_def_real: the flow definition becomes the
\* output flow definition
upipe_dvbcsa_dec_set_flow_def_real(s, uref) ==
    LET fd == [uref EXCEPT !.lat = out_latency(s, uref),
                           !.pend = Len(s.batch)] IN
    [s EXCEPT !.flow_def = [lat |-> fd.lat], !.out = Append(@, fd)]

\* ------------------------------------------------------------------- flush
\* the batch handed to dvbcsa_bs_decrypt: the items, the index at which the
\* {NULL, 0} sentinel is written, the parity cursor, the key, the maximum
\* length, and the scrambling bits the batched packets came with
bs_call(s) ==
    [items |-> s.batch, sentinel |-> Len(s.batch), odd |-> s.odd,
     key |-> s.key[slot(s.odd)], maxlen |-> TS_SIZE - TS_HEADER_SIZE,
     sc0s |-> {s.urefs[j].sc0 : j \in {j \in 1..Len(s.urefs) :
                  \E i \in 1..Len(s.batch) : s.batch[i].id = s.urefs[j].id}}]

\* payload of a retained uref after dvbcsa_bs_decrypt
bs_decrypted(s, uref) ==
    IF \E i \in 1..Len(s.batch) : s.batch[i].id = uref.id
    THEN [uref EXCEPT !.xf = "bs", !.key = s.key[slot(s.odd)]]
    ELSE uref

\* flush, lines 318-333: descramble remaining packets; the backend
\* dereferences the key it is given
descramble(s) ==
    IF Len(s.batch) = 0 THEN s
    ELSE LET c == [s EXCEPT !.batch = <<>>,
                            !.decrypts = Append(@, bs_call(s))]
         IN IF s.key[slot(s.odd)] = NULL /\ s.ub = "stop"
            THEN [c EXCEPT !.fault = "null_key", !.halt = TRUE]
            ELSE [c EXCEPT !.fault = IF s.key[slot(s.odd)] = NULL
                                     THEN "null_key" ELSE @,
                           !.urefs = [i \in 1..Len(s.urefs) |->
                                         bs_decrypted(s, s.urefs[i])]]

\* drain that takes the youngest retained uref first
RECURSIVE drain_lifo(_)
drain_lifo(s) ==
    IF s.urefs = <<>> THEN s
    ELSE LET uref == s.urefs[Len(s.urefs)]
             p == [s EXCEPT !.urefs = SubSeq(@, 1, Len(@) - 1)]
         IN drain_lifo(IF uref.kind = "flow"
                       THEN upipe_dvbcsa_dec_set_flow_def_real(p, uref)
                       ELSE output(p, uref))

\* flush, lines 335-342: the retained urefs leave in the order they came
RECURSIVE drain(_)
drain(s) ==
    IF s.urefs = <<>> THEN s
    ELSE LET uref == Head(s.urefs)
             p == [s EXCEPT !.urefs = Tail(@)]
         IN drain(IF uref.kind = "flow"
                  THEN upipe_dvbcsa_dec_set_flow_def_real(p, uref)
                  ELSE output(p, uref))

\* flush, line 345: no more buffered urefs
flush_release(s) ==
    urefcount_release([s EXCEPT !.nb_release = @ + 1])

\* flush that leaves the pump as it is
flush_keep_pump(s) ==
    LET d == descramble(s) IN
    IF d.halt THEN d ELSE flush_release(drain(d))

\* upipe_dvbcsa_dec_flush
upipe_dvbcsa_dec_flush(s) ==
    LET d == descramble(set_upump_null(s)) IN
    IF d.halt THEN d ELSE flush_release(drain(d))

\* ------------------------------------------------------------------- input
\* the packet is one the pipe is asked to descramble: scrambled with a
\* parity whose slot is occupied, carrying a payload, on a listed pid
Eligible(s, u) ==
    /\ \/ u.sc = TS_SCRAMBLING_EVEN
       \/ u.sc = TS_SCRAMBLING_ODD /\ s.key[1] # NULL
    /\ u.payload
    /\ u.pid \in s.pids

\* the uref made of the n-th input item, whose header is u: what is done
\* to the packet (sc: scrambling bits now, xf: the cipher run on the
\* payload, key: its key, hs and n: offset and length of the bytes given to
\* the cipher); sc0, lat0, hdr, keyed and elig record the scrambling bits
\* and the latency attribute it came with, whether its header can be read, whether a key was installed and
\* whether it was eligible for descrambling when it came, afbad whether
\* its header announces an adaptation field of AF_LIMIT bytes or more, and
\* afl the adaptation field length the handler has read from it
MkUref(s, u, n) ==
    [kind |-> "pkt", id |-> n, sc0 |-> u.sc, sc |-> u.sc,
     lat |-> Absent, lat0 |-> Absent, xf |-> "none", key |-> NULL,
     hs |-> 0, n |-> 0, pend |-> 0, hdr |-> u.fail # "peek", keyed |-> s.key[0] # NULL,
     elig |-> Eligible(s, u), afbad |-> (u.af /\ u.afl >= AF_LIMIT),
     afl |-> Absent]

MkFlow(s, lat, n) ==
    [kind |-> "flow", id |-> n, sc0 |-> 0, sc |-> 0,
     lat |-> lat, lat0 |-> lat, xf |-> "none", key |-> NULL,
     hs |-> 0, n |-> 0, pend |-> 0, hdr |-> FALSE, keyed |-> s.key[0] # NULL, elig |-> FALSE,
     afbad |-> FALSE, afl |-> Absent]

\* input, lines 406-416: parity and validity from the scrambling bits
parity(s, scrambling) ==
    IF scrambling = TS_SCRAMBLING_EVEN THEN [odd |-> FALSE, valid |-> TRUE]
    ELSE IF scrambling = TS_SCRAMBLING_ODD
         THEN [odd |-> TRUE, valid |-> s.key[1] # NULL]
    ELSE [odd |-> FALSE, valid |-> FALSE]

\* input, line 418: the packet is to be descrambled
to_descramble(s, u) ==
    /\ parity(s, u.sc).valid
    /\ u.payload
    /\ check_pid(s, u.pid)

\* input that takes the TS header for the whole header of every packet
ts_header_size_fixed(u) == TS_HEADER_SIZE

\* input, lines 392 and 440: size of the TS header with its adaptation field
ts_header_size(u) ==
    IF u.af THEN TS_HEADER_SIZE + u.afl + 1 ELSE TS_HEADER_SIZE

\* bitwise and of two naturals
RECURSIVE BitAnd(_, _)
BitAnd(a, b) ==
    IF a = 0 \/ b = 0 THEN 0
    ELSE (a % 2) * (b % 2) + 2 * BitAnd(a \div 2, b \div 2)

\* input, line 472: (size - ts_header_size) & ~0xf; the operand is below
\* 2^31, where the mask is NOT_0XF
aes_len(size, hs) == BitAnd(size - hs, NOT_0XF)

\* input that leaves the scrambling bits as they came
ts_keep_scrambling(uref, v) == uref

\* input, line 462: ts_set_scrambling(ts, 0)
ts_set_scrambling(uref, v) == [uref EXCEPT !.sc = v]

\* input that decrypts with the IV the handle was left with
aes_keep_iv(s, isodd) == s

\* input, line 471: gcry_cipher_setiv with the CISSA IV
aes_setiv(s, isodd) == [s EXCEPT !.key[slot(isodd)].iv = "cissa"]

\* input, lines 472-477: gcry_cipher_decrypt in place, from the end of the
\* header, with the IV of the handle; a failure is logged only
aes_decrypt(s, uref, isodd, err) ==
    [uref EXCEPT !.xf = IF err THEN "aes_err" ELSE "aes",
                 !.key = s.key[slot(isodd)],
                 !.n = aes_len(TS_SIZE, uref.hs)]

\* the handle after gcry_cipher_decrypt: CBC leaves the last block as IV
aes_chain(s, isodd, n) ==
    IF n > 0 THEN [s EXCEPT !.key[slot(isodd)].iv = "chained"] ELSE s

\* input that gives the keys up when the AES backend fails
aes_input_reset(s, uref, isodd, err) ==
    LET a == aes_setiv(s, isodd)
        d == aes_decrypt(a, uref, isodd, err)
    IN output(IF err THEN upipe_dvbcsa_dec_free_key(a)
              ELSE aes_chain(a, isodd, d.n), d)

\* input, lines 465-479: AES mode
aes_input(s, uref, isodd, err) ==
    LET a == aes_setiv(s, isodd)
        d == aes_decrypt(a, uref, isodd, err)
    IN output(aes_chain(a, isodd, d.n), d)

\* input, lines 482-486: dvbcsa_decrypt
csa_decrypt(s, uref, isodd) ==
    [uref EXCEPT !.xf = "csa", !.key = s.key[slot(isodd)],
                 !.n = TS_SIZE - uref.hs]

\* input that batches a packet whatever the parity of the batch
bs_parity_noflush(s, first, isodd) == s

\* input, lines 491-492: a batch of the other parity is flushed first
bs_parity_flush(s, first, isodd) ==
    IF ~first /\ s.odd # isodd THEN upipe_dvbcsa_dec_flush(s) ELSE s

\* input, lines 493-499: the payload joins the batch
bs_append(s, uref, isodd) ==
    [s EXCEPT !.odd = isodd,
              !.batch = Append(@, [id |-> uref.id, hs |-> uref.hs,
                                   len |-> TS_SIZE - uref.hs])]

\* input, lines 503-508: the first retained uref takes a reference on the
\* pipe and starts the deadline
bs_first(s, first) ==
    IF first THEN wait_upump(upipe_use(s)) ELSE s

\* input that descrambles the batch once it holds more than the batch size
bs_full_late(s) ==
    IF Len(s.batch) > BatchSize THEN upipe_dvbcsa_dec_flush(s) ELSE s

\* input, lines 511-512: a full batch is descrambled
bs_full(s) ==
    IF Len(s.batch) >= BatchSize THEN upipe_dvbcsa_dec_flush(s) ELSE s

\* input, lines 489-512: biss mode
bs_input(s, uref, first, isodd) ==
    LET f == Resume(bs_parity_flush(s, first, isodd)) IN
    IF f.halt THEN f
    ELSE bs_full(bs_first(hold_input(bs_append(f, uref, isodd),
                                     [uref EXCEPT !.n = TS_SIZE - uref.hs]),
                          first))

\* input, lines 383-389: output if no key is set
nokey_input(s, uref, first) ==
    LET f == Resume(IF ~first THEN upipe_dvbcsa_dec_flush(s) ELSE s) IN
    IF f.halt THEN f ELSE output(f, uref)

\* input that retains every packet left alone
bypass_hold(s, uref, first) == hold_input(s, uref)

\* input that sends the packets left alone at once
bypass_send(s, uref, first) == output(s, uref)

\* input, lines 418-424: packets left alone keep their place
bypass_input(s, uref, first) ==
    IF first THEN output(s, uref) ELSE hold_input(s, uref)

\* input that takes an adaptation field of any length
unusable_any_af(u) ==
    \/ u.af /\ u.fail = "extract"
    \/ u.fail = "copy"
    \/ u.fail = "write"

\* input, lines 426-460: the packet cannot be read, copied or mapped
unusable(u) ==
    \/ u.af /\ u.fail = "extract"
    \/ u.af /\ u.afl >= AF_LIMIT
    \/ u.fail = "copy"
    \/ u.fail = "write"

\* input that flushes what is retained before it gives a packet up
drop_input_flush(s, uref) == uref_free(upipe_dvbcsa_dec_flush(s), uref)

\* input, lines 393-397, 430-439, 445-449 and 455-459: the packet is given
\* up and the handler returns
drop_input(s, uref) == uref_free(s, uref)

\* upipe_dvbcsa_dec_input on a TS packet whose bytes are u
input_packet(s, uref, u) ==
    LET first == check_input(s) IN
    IF s.key[0] = NULL THEN nokey_input(s, uref, first)
    ELSE IF u.fail = "peek" THEN drop_input(s, uref)
    ELSE IF ~to_descramble(s, u) THEN bypass_input(s, uref, first)
    ELSE IF unusable(u) THEN drop_input(s, uref)
    ELSE LET isodd == parity(s, u.sc).odd
             ts == ts_set_scrambling(
                       [uref EXCEPT !.hs = ts_header_size(u),
                                    !.afl = IF u.af THEN Attr(u.afl)
                                            ELSE Absent], 0)
         IN IF s.mode = "AES"
            THEN aes_input(s, ts, isodd, u.fail = "aes")
            ELSE IF s.mode = "CSA"
            THEN output(s, csa_decrypt(s, ts, isodd))
            ELSE bs_input(s, ts, first, isodd)

\* input that retains every flow definition
input_flow_hold(s, uref) == hold_input(s, uref)

\* input that applies a flow definition at once whatever is retained
input_flow_now(s, uref) == upipe_dvbcsa_dec_set_flow_def_real(s, uref)

\* upipe_dvbcsa_dec_input on a flow definition, lines 374-381
input_flow(s, uref) ==
    IF check_input(s)
    THEN upipe_dvbcsa_dec_set_flow_def_real(s, uref)
    ELSE hold_input(s, uref)

\* upipe_dvbcsa_dec_input: u is what reading the block of uref gives
upipe_dvbcsa_dec_input(s, uref, u) ==
    IF uref.kind = "flow" THEN input_flow(s, uref)
    ELSE input_packet(s, uref, u)

\* ----------------------------------------------------------------- control
Return(s, code) == [s EXCEPT !.ret = code]

\* set_key, lines 574-585: bit-sliced keys
set_key_bs(s, odd_len, fail) ==
    IF fail = 1 THEN Return(s, "ALLOC")
    ELSE LET e == [s EXCEPT !.key[0] = NewKey(s.nb_setkey, 0, "CSA_BS")] IN
         IF odd_len = 0 THEN Return(e, "NONE")
         ELSE IF fail = 3
              THEN Return(upipe_dvbcsa_dec_free_key(e), "ALLOC")
         ELSE Return([e EXCEPT !.key[1] =
                          NewKey(s.nb_setkey, 1, "CSA_BS")], "NONE")

\* set_key, lines 587-615: AES handles; any backend error frees both
set_key_aes(s, odd_len, fail) ==
    LET m == [s EXCEPT !.mode = "AES"] IN
    IF fail \in {1, 2}
    THEN Return(upipe_dvbcsa_dec_free_key(m), "EXTERNAL")
    ELSE LET e == [m EXCEPT !.key[0] = NewKey(s.nb_setkey, 0, "AES")] IN
         IF odd_len = 0 THEN Return(e, "NONE")
         ELSE IF fail \in {3, 4}
              THEN Return(upipe_dvbcsa_dec_free_key(e), "EXTERNAL")
         ELSE Return([e EXCEPT !.key[1] =
                          NewKey(s.nb_setkey, 1, "AES")], "NONE")

\* set_key that makes classical keys without recording the mode (line 618)
set_key_csa_keepmode(s, odd_len, fail) ==
    IF fail = 1 THEN Return(s, "ALLOC")
    ELSE LET e == [s EXCEPT !.key[0] = NewKey(s.nb_setkey, 0, "CSA")] IN
         IF odd_len = 0 THEN Return(e, "NONE")
         ELSE IF fail = 3
              THEN Return(upipe_dvbcsa_dec_free_key(e), "ALLOC")
         ELSE Return([e EXCEPT !.key[1] =
                          NewKey(s.nb_setkey, 1, "CSA")], "NONE")

\* set_key, lines 617-631: classical keys
set_key_csa(s, odd_len, fail) ==
    LET m == [s EXCEPT !.mode = "CSA"] IN
    IF fail = 1 THEN Return(m, "ALLOC")
    ELSE LET e == [m EXCEPT !.key[0] = NewKey(s.nb_setkey, 0, "CSA")] IN
         IF odd_len = 0 THEN Return(e, "NONE")
         ELSE IF fail = 3
              THEN Return(upipe_dvbcsa_dec_free_key(e), "ALLOC")
         ELSE Return([e EXCEPT !.key[1] =
                          NewKey(s.nb_setkey, 1, "CSA")], "NONE")

\* set_key, lines 574, 587 and 617: the backend the keys are made for
select_mode(s, even_len) ==
    IF s.mode = "CSA_BS" THEN "CSA_BS"
    ELSE IF even_len >= AES_CW_LEN THEN "AES"
    ELSE "CSA"

\* set_key that does not compare the odd control word with the even one
invalid_key_even_only(even_key, odd_key) ==
    \/ cw_len(even_key) = 0
    \/ even_key.len # cw_len(even_key)

\* set_key, lines 564-571: the control words are refused
invalid_key(even_key, odd_key) ==
    \/ cw_len(even_key) = 0
    \/ even_key.len # cw_len(even_key)
    \/ cw_len(odd_key) # 0 /\ even_key.len # cw_len(odd_key)

\* upipe_dvbcsa_dec_set_key
upipe_dvbcsa_dec_set_key(s, even_key, odd_key, fail) ==
    LET f == upipe_dvbcsa_dec_free_key(s)
        m == select_mode(f, cw_len(even_key))
    IN IF invalid_key(even_key, odd_key) THEN Return(f, "INVALID")
       ELSE IF m = "CSA_BS" THEN set_key_bs(f, cw_len(odd_key), fail)
       ELSE IF m = "AES" THEN set_key_aes(f, cw_len(odd_key), fail)
       ELSE set_key_csa(f, cw_len(odd_key), fail)

\* set_flow_def that takes any flow definition
set_flow_def_any(s, match, lat, dupfail) ==
    IF dupfail THEN Return(s, "ALLOC")
    ELSE Return(upipe_dvbcsa_dec_input(
                    [s EXCEPT !.nb_in = @ + 1],
                    MkFlow(s, lat, s.nb_in + 1), NULL), "NONE")

\* upipe_dvbcsa_dec_set_flow_def: a matching definition is duplicated and
\* goes through the input handler
upipe_dvbcsa_dec_set_flow_def(s, match, lat, dupfail) ==
    IF ~match THEN Return(s, "INVALID")
    ELSE IF dupfail THEN Return(s, "ALLOC")
    ELSE Return(upipe_dvbcsa_dec_input(
                    [s EXCEPT !.nb_in = @ + 1],
                    MkFlow(s, lat, s.nb_in + 1), NULL), "NONE")

\* upipe_dvbcsa_common_control: UPIPE_DVBCSA_ADD_PID, UPIPE_DVBCSA_DEL_PID
upipe_dvbcsa_common_control(s, add, pid) ==
    Return([s EXCEPT !.pids = IF add THEN @ \cup {pid} ELSE @ \ {pid}],
           "NONE")

\* upipe_dvbcsa_dec_check: the pump manager is asked from the probes
upipe_dvbcsa_dec_check(s, mgr) ==
    IF s.upump_mgr THEN s ELSE [s EXCEPT !.upump_mgr = mgr]

\* upipe_dvbcsa_dec_control: a command that succeeded is followed by the
\* check
upipe_dvbcsa_dec_control(r, mgr) ==
    IF r.ret = "NONE" /\ ~r.dead THEN upipe_dvbcsa_dec_check(r, mgr) ELSE r

\* answers of the probes to the request of a pump manager
ProbeAnswers == {TRUE}

\* ----------------------------------------------------------------- actions
Live == ~dead /\ fault = "none" /\ ext > 0

Init ==
    /\ alloc_flow_def \in BOOLEAN
    /\ mode = IF alloc_flow_def THEN "CSA_BS" ELSE "CSA"
    /\ \E l \in AllocLatencies :
          latency = IF alloc_flow_def THEN get_latency([lat |-> l], 0) ELSE 0
    /\ key = [i \in 0..1 |-> NULL]
    /\ odd = FALSE
    /\ batch = <<>>
    /\ urefs = <<>>
    /\ upump = FALSE
    /\ upump_mgr = FALSE
    /\ refcount = ExtRefs
    /\ ext = ExtRefs
    /\ flow_def = NULL
    /\ pids = {}
    /\ dead = FALSE
    /\ nb_in = 0
    /\ nb_setkey = 0
    /\ out = <<>>
    /\ freed = <<>>
    /\ decrypts = <<>>
    /\ hi = 0
    /\ ret = "NONE"
    /\ op = "alloc"
    /\ arg = NULL
    /\ nb_use = 0
    /\ nb_release = 0
    /\ fault = "none"

\* upstream sends the TS packet u
InputOf(u, ub) ==
    /\ Live
    /\ nb_in < MaxInputs
    /\ Becomes(upipe_dvbcsa_dec_input(
                   [Enter(Pipe, ub) EXCEPT !.nb_in = @ + 1],
                   MkUref(Pipe, u, nb_in + 1), u))
    /\ op' = "input"
    /\ UNCHANGED <<ext, alloc_flow_def, arg>>

Input == \E u \in Packets, ub \in UBOutcomes : InputOf(u, ub)

\* UPIPE_SET_FLOW_DEF
SetFlowDefOf(match, lat, dupfail, mgr) ==
    /\ Live
    /\ nb_in < MaxInputs
    /\ Becomes(upipe_dvbcsa_dec_control(
                   upipe_dvbcsa_dec_set_flow_def(Enter(Pipe, "stop"), match,
                                                 lat, dupfail), mgr))
    /\ op' = "set_flow_def"
    /\ UNCHANGED <<ext, alloc_flow_def, arg>>

SetFlowDef ==
    \E match \in BOOLEAN, l \in FlowLatencies, dupfail \in BOOLEAN,
       mgr \in ProbeAnswers : SetFlowDefOf(match, l, dupfail, mgr)

\* UPIPE_DVBCSA_SET_KEY
SetKeyDoes(e, o, fail, mgr) ==
    /\ Live
    /\ nb_setkey < MaxSetKey
    /\ Becomes(upipe_dvbcsa_dec_control(
                   upipe_dvbcsa_dec_set_key(
                       [Enter(Pipe, "stop") EXCEPT !.nb_setkey = @ + 1],
                       e, o, fail), mgr))
    /\ op' = "set_key"
    /\ UNCHANGED <<ext, alloc_flow_def>>

SetKeyOf(e, o, fail, mgr) ==
    SetKeyDoes(e, o, fail, mgr) /\ UNCHANGED arg

SetKey ==
    \E e \in KeyStrings, o \in KeyStrings, fail \in KeyFails,
       mgr \in ProbeAnswers : SetKeyOf(e, o, fail, mgr)

\* UPIPE_DVBCSA_ADD_PID and UPIPE_DVBCSA_DEL_PID
SetPid ==
    /\ Live
    /\ \E add \in BOOLEAN, pid \in CtlPids, mgr \in ProbeAnswers :
          Becomes(upipe_dvbcsa_dec_control(
                      upipe_dvbcsa_common_control(Enter(Pipe, "stop"), add,
                                                  pid), mgr))
    /\ op' = "set_pid"
    /\ UNCHANGED <<ext, alloc_flow_def, arg>>

\* the deadline pump triggers: upipe_dvbcsa_dec_worker
Worker ==
    /\ ~dead
    /\ fault = "none"
    /\ upump
    /\ \E ub \in UBOutcomes : Becomes(upipe_dvbcsa_dec_flush(Enter(Pipe, ub)))
    /\ op' = "worker"
    /\ UNCHANGED <<ext, alloc_flow_def, arg>>

\* an external owner releases its reference: upipe_release
Release ==
    /\ Live
    /\ Becomes(urefcount_release(Enter(Pipe, "stop")))
    /\ op' = "release"
    /\ ext' = ext - 1
    /\ UNCHANGED <<alloc_flow_def, arg>>

Next ==
    \/ Input
    \/ SetFlowDef
    \/ SetKey
    \/ SetPid
    \/ Worker
    \/ Release

Spec == Init /\ [][Next]_vars

\* ------------------------------------------------- SetKey on its own
\* the key register under SetKey calls alone, with the arguments of the
\* call recorded
SetKeyRec ==
    \E e \in KeyStrings, o \in KeyStrings, fail \in KeyFails,
       mgr \in ProbeAnswers :
       /\ SetKeyDoes(e, o, fail, mgr)
       /\ arg' = [even |-> e, odd |-> o, fail |-> fail]

KeyNext == SetKeyRec

KeySpec == Init /\ [][KeyNext]_vars

\* ------------------------------------------------------ the deadline
\* the pipe given well-formed keys and scrambled packets of the controlled
\* pid, with the event loop running a started pump
ScrambledPackets ==
    [kind : {"pkt"}, sc : {TS_SCRAMBLING_EVEN, TS_SCRAMBLING_ODD},
     payload : {TRUE}, af : {FALSE}, afl : {0}, pid : CtlPids,
     fail : {"none"}]

FairInput == \E u \in ScrambledPackets, ub \in UBOutcomes : InputOf(u, ub)

FairSetKey ==
    \E k \in {k \in KeyStrings : cw_len(k) = 16 /\ k.len = 16},
       mgr \in ProbeAnswers : SetKeyOf(k, k, 0, mgr)

FairNext ==
    \/ FairInput
    \/ FairSetKey
    \/ SetPid
    \/ Worker

FairSpec == Init /\ [][FairNext]_vars /\ WF_vars(Worker)

\* ================================================================== claims
Ordered(q) == \A i, j \in 1..Len(q) : i < j => q[i].id < q[j].id

ScOf(isodd) == IF isodd THEN TS_SCRAMBLING_ODD ELSE TS_SCRAMBLING_EVEN

\* C1: items reach the sink in the order they were input. Items are
\* numbered in input order, so: what a call sends downstream is in
\* increasing order and comes after everything sent by earlier calls, and
\* whatever is still retained comes after everything sent so far and is
\* itself retained in input order.
C1_OutputOrder ==
    /\ Ordered(out)
    /\ Ordered(urefs)
    /\ \A i \in 1..Len(out) : out[i].id > hi
    /\ \A i \in 1..Len(urefs) :
          /\ urefs[i].id > hi
          /\ \A j \in 1..Len(out) : out[j].id < urefs[i].id

\* a flush has sent a descrambled packet and a held flow definition after
\* an earlier call had sent something
C1_Witness ==
    /\ hi >= 1
    /\ nb_release = 1
    /\ \E i, j \in 1..Len(out) :
          i < j /\ out[i].xf = "bs" /\ out[j].kind = "flow"

\* C2: in CSA_BS mode, what is retained when a call returns on a live pipe
\* is eventually flushed, whether or not further input comes, as long as a
\* started pump eventually triggers.
C2_HeldEventuallyFlushed ==
    (urefs # <<>> /\ ~dead /\ fault = "none") ~> (urefs = <<>>)

\* C3: the batched packets all came with the parity of the cursor, in the
\* batch under construction and in every batch given to dvbcsa_bs_decrypt,
\* whose key is the one of the slot of that parity.
C3_BatchParity ==
    /\ \A i \in 1..Len(batch) :
          \E j \in 1..Len(urefs) :
              /\ urefs[j].id = batch[i].id
              /\ urefs[j].sc0 = ScOf(odd)
    /\ \A d \in 1..Len(decrypts) :
          /\ decrypts[d].sc0s = {ScOf(decrypts[d].odd)}
          /\ decrypts[d].key \in {NULL} \cup
                {NewKey(n, slot(decrypts[d].odd), "CSA_BS") : n \in 1..MaxSetKey}

\* a packet of the other parity has flushed the batch and started the next
C3_Witness ==
    /\ Len(decrypts) = 1
    /\ decrypts[1].odd = FALSE
    /\ Len(batch) = 1
    /\ odd = TRUE
    /\ urefs # <<>>

NoKeys == [i \in 0..1 |-> NULL]

\* the packet left the pipe (or waits in it) as it came
Untouched(x) == x.xf = "none" /\ x.sc = x.sc0 /\ x.key = NULL

\* a packet that came with a key installed and a readable header and was
\* not eligible for descrambling
Bypassed(x) == x.kind = "pkt" /\ x.keyed /\ x.hdr /\ ~x.elig

\* C4: with a key installed, a packet that is not eligible for descrambling
\* is neither modified nor dropped: nothing retained or sent that was not
\* eligible has been touched and none is released unsent; it is retained
\* only when something was retained before it came; and when it leaves the
\* retained urefs it is sent downstream.
C4_Held ==
    \A j \in 1..Len(urefs') :
        (op' = "input" /\ urefs'[j].id = nb_in' /\ nb_in' = nb_in + 1
         /\ Bypassed(urefs'[j]))
        => urefs # <<>>

C4_Leaves ==
    \A i \in 1..Len(urefs) :
        (/\ Bypassed(urefs[i])
         /\ \A j \in 1..Len(urefs') : urefs'[j].id # urefs[i].id)
        => \E j \in 1..Len(out') : out'[j] = urefs[i]

C4_IneligibleUntouched ==
    /\ [](\A i \in 1..Len(out) : Bypassed(out[i]) => Untouched(out[i]))
    /\ [](\A i \in 1..Len(urefs) : Bypassed(urefs[i]) => Untouched(urefs[i]))
    /\ [](\A i \in 1..Len(freed) : ~Bypassed(freed[i]))
    /\ [][C4_Held]_vars
    /\ [][C4_Leaves]_vars

\* C5: with no even key a packet is sent as it came within the input call,
\* after every retained item, which a flush sends first, and nothing is
\* retained when the call returns.
C5_Step ==
    (op' = "input" /\ nb_in' = nb_in + 1 /\ key[0] = NULL)
    => /\ Len(out') = Len(urefs) + 1
       /\ out'[Len(out')].id = nb_in'
       /\ Untouched(out'[Len(out')])
       /\ \A i \in 1..Len(urefs) : out'[i].id = urefs[i].id
       /\ urefs' = <<>>
       /\ freed' = <<>>

C5_NoKeyPassThrough == [][C5_Step]_vars

\* C6: a packet that was accepted for descrambling and is sent downstream
\* has its scrambling bits at zero, and so has every sent packet whose
\* payload went through a cipher.
C6_ScramblingCleared ==
    \A i \in 1..Len(out) :
        (out[i].kind = "pkt" /\ ((out[i].keyed /\ out[i].elig)
                                 \/ out[i].xf # "none"))
        => out[i].sc = 0

\* a flush has sent a packet that came with odd scrambling bits through
\* the batch
C6_Witness ==
    \E i \in 1..Len(out) :
        /\ out[i].xf = "bs"
        /\ out[i].sc0 = TS_SCRAMBLING_ODD
        /\ out[i].key # NULL

\* C7: a SetKey that succeeds leaves the mode at AES for an even control
\* word of 32 characters or more, else at CSA_BS for a pipe allocated with
\* a flow definition, else at CSA.
C7_ModeSelection ==
    (op = "set_key" /\ ret = "NONE")
    => mode = IF cw_len(arg.even) >= AES_CW_LEN THEN "AES"
              ELSE IF alloc_flow_def THEN "CSA_BS"
              ELSE "CSA"

\* C8 as stated: SetKey fails with the invalid error and no key when the
\* even string is empty or not fully parsed or when a non-empty odd string
\* has a parsed length other than the even one; it succeeds with the even
\* slot only when the odd string is empty, and with both slots otherwise.
C8_AsStated ==
    op = "set_key"
    => IF \/ cw_len(arg.even) = 0
          \/ cw_len(arg.even) # arg.even.len
          \/ arg.odd.len # 0 /\ cw_len(arg.odd) # cw_len(arg.even)
       THEN ret = "INVALID" /\ key = NoKeys
       ELSE IF arg.odd.len = 0
       THEN ret = "NONE" /\ key[0] # NULL /\ key[1] = NULL
       ELSE ret = "NONE" /\ key[0] # NULL /\ key[1] # NULL

\* C8 amended: SetKey fails with the invalid error and no key when the even
\* string is empty or not fully parsed, or when the odd string parses to a
\* non-empty control word of another length than the even one. Otherwise,
\* unless a backend call fails (then it fails with an allocation or a
\* backend error and no key), it succeeds, with the even slot only when
\* nothing of the odd string parses and with both slots when it does.
C8_KeyValidation ==
    op = "set_key"
    => IF \/ cw_len(arg.even) = 0
          \/ cw_len(arg.even) # arg.even.len
          \/ cw_len(arg.odd) # 0 /\ cw_len(arg.odd) # cw_len(arg.even)
       THEN ret = "INVALID" /\ key = NoKeys
       ELSE IF ret # "NONE"
       THEN /\ arg.fail # 0
            /\ ret \in {"ALLOC", "EXTERNAL"}
            /\ key = NoKeys
       ELSE /\ key[0] # NULL
            /\ key[1] # NULL <=> cw_len(arg.odd) # 0

\* SetKey, after one that installed a key, has refused an odd control
\* word that parses to another length than the even one
C8_Witness ==
    /\ op = "set_key"
    /\ nb_setkey = 2
    /\ ret = "INVALID"
    /\ cw_len(arg.even) = arg.even.len
    /\ cw_len(arg.odd) \notin {0, cw_len(arg.even)}
    /\ key = NoKeys

\* C9: when a SetKey call returns, each slot is empty or holds the key made
\* by that call; the odd slot is empty when no odd control word was given
\* and both are empty when the call failed.
C9_NoKeySurvives ==
    op = "set_key"
    => /\ \A i \in 0..1 :
             key[i] = NULL \/ key[i] = NewKey(nb_setkey, i, mode)
       /\ cw_len(arg.odd) = 0 => key[1] = NULL
       /\ ret # "NONE" => key = NoKeys

\* a second SetKey, given no odd control word, has installed an even key
\* only
C9_Witness ==
    /\ op = "set_key"
    /\ nb_setkey = 2
    /\ ret = "NONE"
    /\ cw_len(arg.odd) = 0
    /\ key[0] # NULL
    /\ key[1] = NULL

\* C10: an occupied odd slot comes with an occupied even slot, and every
\* occupied slot was made for the current mode.
C10_KeyRegister ==
    /\ key[1] # NULL => key[0] # NULL
    /\ \A i \in 0..1 : key[i] # NULL => key[i].mode = mode

\* a second SetKey has filled both slots in a mode chosen by that call
C10_Witness ==
    /\ op = "set_key"
    /\ nb_setkey = 2
    /\ key[0] # NULL
    /\ key[1] # NULL
    /\ mode \in {"AES", "CSA"}

\* what SetFlowDef may change of the pipe
FlowState == <<flow_def, urefs, batch, odd, upump, upump_mgr, refcount, nb_in,
               mode, key, latency, pids, dead, fault>>

\* the call of SetFlowDef with these arguments is right
C11_Call(match, lat, dupfail) ==
    IF ~match
    THEN /\ ret' = "INVALID"
         /\ out' = <<>>
         /\ freed' = <<>>
         /\ UNCHANGED FlowState
    ELSE IF dupfail
    THEN /\ ret' = "ALLOC"
         /\ out' = <<>>
         /\ UNCHANGED FlowState
    ELSE /\ ret' = "NONE"
         /\ nb_in' = nb_in + 1
         /\ freed' = <<>>
         /\ UNCHANGED <<batch, upump, refcount, key, mode>>
         /\ IF urefs = <<>>
            THEN /\ urefs' = <<>>
                 /\ Len(out') = 1
                 /\ out'[1].kind = "flow"
                 /\ out'[1].id = nb_in'
                 /\ flow_def' = [lat |-> out'[1].lat]
            ELSE /\ out' = <<>>
                 /\ flow_def' = flow_def
                 /\ Len(urefs') = Len(urefs) + 1
                 /\ SubSeq(urefs', 1, Len(urefs)) = urefs
                 /\ urefs'[Len(urefs')].kind = "flow"
                 /\ urefs'[Len(urefs')].id = nb_in'
                 /\ urefs'[Len(urefs')].lat = lat

C11_Step ==
    op' = "set_flow_def"
    => \A match \in BOOLEAN, lat \in FlowLatencies, dupfail \in BOOLEAN,
          mgr \in ProbeAnswers :
          SetFlowDefOf(match, lat, dupfail, mgr) => C11_Call(match, lat, dupfail)

\* C11: SetFlowDef with a flow definition that does not match returns the
\* invalid error and changes nothing of the pipe; a matching one that can be
\* duplicated goes through the input handler as a flow definition: applied
\* at once when nothing is retained, retained last otherwise.
C11_SetFlowDef == [][C11_Step]_vars

\* SetFlowDef has refused a flow definition while a packet was retained
\* with the deadline running
C11_Witness ==
    /\ op = "set_flow_def"
    /\ ret = "INVALID"
    /\ urefs # <<>>
    /\ batch # <<>>
    /\ upump

\* latency of a flow definition as it came, 0 when it carried none
InLatency(x) == IF x.lat0 = Absent THEN 0 ELSE CHOOSE v \in x.lat0 : TRUE

\* C12: a flow definition sent downstream, at once or by a flush, carries
\* the latency it came with (0 if none) plus the configured latency plus
\* DVBCSA_LATENCY in CSA_BS mode, and the latency attribute it came with in
\* the CSA and AES modes; it is the stored output flow definition, and a
\* retained one is still as it came.
C12_PublishedLatency ==
    /\ \A i \in 1..Len(out) :
          out[i].kind = "flow"
          => /\ out[i].lat = IF mode = "CSA_BS"
                             THEN Attr(InLatency(out[i]) + latency
                                       + DVBCSA_LATENCY)
                             ELSE out[i].lat0
             /\ flow_def # NULL
             /\ (\A j \in 1..Len(out) : j > i => out[j].kind # "flow")
                => flow_def.lat = out[i].lat
    /\ \A i \in 1..Len(urefs) :
          urefs[i].kind = "flow" => urefs[i].lat = urefs[i].lat0

\* a flush of a CSA_BS pipe with a configured latency has sent a retained
\* flow definition that came with a latency
C12_Witness ==
    /\ mode = "CSA_BS"
    /\ latency > 0
    /\ nb_release = 1
    /\ \E i \in 1..Len(out) :
          /\ out[i].kind = "flow"
          /\ out[i].lat0 # Absent
          /\ out[i].lat = Attr(InLatency(out[i]) + latency + DVBCSA_LATENCY)
          /\ i > 1

\* C13: when a call has returned the batch holds fewer than BatchSize
\* items; every call of dvbcsa_bs_decrypt was given between 1 and BatchSize
\* items and the sentinel written at the index that is the number of
\* items, inside the BatchSize + 1 slots of the array.
C13_BatchBounded ==
    /\ Len(batch) < BatchSize
    /\ \A d \in 1..Len(decrypts) :
          /\ Len(decrypts[d].items) \in 1..BatchSize
          /\ decrypts[d].sentinel = Len(decrypts[d].items)
          /\ decrypts[d].sentinel \in 0..BatchSize

\* a packet has filled the batch, which was given whole to the backend
C13_Witness ==
    /\ op = "input"
    /\ batch = <<>>
    /\ \E d \in 1..Len(decrypts) :
          /\ Len(decrypts[d].items) = BatchSize
          /\ decrypts[d].sentinel = BatchSize

\* references the pipe holds on itself
SelfRefs == refcount - ext

\* C14: on a live pipe the pipe holds one reference on itself while urefs
\* are retained and none otherwise.
C14_SelfReference ==
    (~dead /\ fault = "none")
    => SelfRefs = IF urefs # <<>> THEN 1 ELSE 0

\* the state of the core
CoreState == <<batch, urefs, odd, upump, upump_mgr, refcount, key, mode,
               flow_def, latency, pids, dead, fault>>

\* C15: an input call that gives its packet up sends nothing, returns no
\* error and leaves the batch, the retained urefs, the parity cursor, the
\* pump, the reference count and the keys as they were.
C15_Step ==
    (/\ op' = "input"
     /\ nb_in' = nb_in + 1
     /\ \E i \in 1..Len(freed') : freed'[i].id = nb_in')
    => /\ out' = <<>>
       /\ Len(freed') = 1
       /\ ret' = "NONE"
       /\ decrypts' = <<>>
       /\ nb_use' = 0
       /\ nb_release' = 0
       /\ UNCHANGED CoreState

C15_DropLeavesState == [][C15_Step]_vars

\* a packet has been given up while another was in the batch with the
\* deadline running
C15_Witness ==
    /\ op = "input"
    /\ Len(freed) = 1
    /\ freed[1].id = nb_in
    /\ batch # <<>>
    /\ urefs # <<>>
    /\ upump

\* C16: the call in which the pipe is freed leaves both key slots empty,
\* the batch empty, the pump stopped and nothing retained; nothing released
\* unsent by it was sent or went through the batch cipher; and when it is
\* the release of an owner, every retained uref is released unsent, nothing
\* is sent and dvbcsa_bs_decrypt is not called.
C16_Step ==
    (~dead /\ dead')
    => /\ \A i \in 1..Len(freed') :
             /\ freed'[i].xf = "none"
             /\ \A j \in 1..Len(out') : out'[j].id # freed'[i].id
       /\ fault' = "none"
          => /\ key' = NoKeys
             /\ batch' = <<>>
             /\ urefs' = <<>>
             /\ ~upump'
       /\ op' = "release"
          => /\ out' = <<>>
             /\ decrypts' = <<>>
             /\ freed' = urefs

C16_TearDown == [][C16_Step]_vars

\* the last owner has released a pipe that had a packet in the batch
C16_Witness ==
    /\ op = "release"
    /\ dead
    /\ \E i \in 1..Len(freed) : freed[i].elig /\ freed[i].sc0 # freed[i].sc
    /\ key = NoKeys
    /\ out = <<>>

\* the largest multiple of 16 not exceeding x
Largest16(x) == CHOOSE n \in 0..x : n % 16 = 0 /\ n + 16 > x

\* C17: a packet sent after AES decryption with a header of h bytes,
\* 4 <= h <= 187, had the largest multiple of 16 not exceeding 188 - h
\* bytes decrypted from offset h, with the key of its parity and the IV
\* set for it; aes_len gives that number for every such h.
C17_AesLength ==
    /\ \A i \in 1..Len(out) :
          out[i].xf \in {"aes", "aes_err"}
          => /\ out[i].hs \in TS_HEADER_SIZE..(TS_SIZE - 1)
             /\ out[i].n = Largest16(TS_SIZE - out[i].hs)
             /\ out[i].hs + out[i].n <= TS_SIZE
             /\ out[i].key # NULL
             /\ out[i].key.iv = "cissa"
             /\ out[i].key.slot = slot(out[i].sc0 = TS_SCRAMBLING_ODD)
    /\ op = "alloc"
       => \A h \in TS_HEADER_SIZE..(TS_SIZE - 1) :
             aes_len(TS_SIZE, h) = Largest16(TS_SIZE - h)

\* a packet has been decrypted with an AES handle that had decrypted
\* another one before
C17_Witness ==
    /\ mode = "AES"
    /\ nb_in >= 2
    /\ \E i \in 1..Len(out) :
          /\ out[i].xf = "aes"
          /\ out[i].n > 0
          /\ out[i].n < TS_SIZE - out[i].hs
          /\ out[i].id = nb_in
          /\ out[i].key.iv = "cissa"
    /\ \E k \in 0..1 : key[k] # NULL /\ key[k].iv = "chained"
    /\ hi >= 1

\* C18: when a call has returned on a live pipe, urefs are retained only
\* with the deadline pump started.
C18_HeldImpliesArmed ==
    (~dead /\ fault = "none" /\ urefs # <<>>) => upump

\* a flush completed in the step: it ends with its upipe_release
FlushDone == nb_release' >= 1

\* C19: the pump is started only while urefs are retained on a live pipe;
\* the deadline callback runs only when urefs are retained; a completed
\* flush has sent every uref that was retained and, when the call returns
\* with a pump started or a packet batched, they were started or batched
\* after it; the flush of the deadline callback leaves the batch and the
\* retained urefs empty and the pump stopped.
C19_Started == upump => (urefs # <<>> /\ ~dead)

C19_Flush ==
    FlushDone
    => /\ \A i \in 1..Len(urefs) :
             \E j \in 1..Len(out') : out'[j].id = urefs[i].id
       /\ upump' => nb_use' = 1
       /\ \A i \in 1..Len(batch') : batch'[i].id = nb_in'
       /\ \A i \in 1..Len(urefs') : urefs'[i].id = nb_in'

C19_Callback ==
    op' = "worker"
    => /\ urefs # <<>>
       /\ FlushDone => (urefs' = <<>> /\ batch' = <<>> /\ ~upump')

C19_FlushCancels ==
    /\ []C19_Started
    /\ [][C19_Flush]_vars
    /\ [][C19_Callback]_vars

\* a packet has filled the batch: the flush has stopped the pump that an
\* earlier call had started, and nothing is retained
C19_Witness ==
    /\ op = "input"
    /\ nb_release = 1
    /\ nb_use = 0
    /\ Len(decrypts) = 1
    /\ Len(decrypts[1].items) = BatchSize
    /\ urefs = <<>>
    /\ batch = <<>>
    /\ ~upump

\* C20: whatever is sent downstream, packet or flow definition, is sent
\* with no payload in the batch; a call that sends something found the
\* batch and the retained urefs empty or completed a flush; and a payload
\* in the batch belongs to a retained uref.
C20_Sent == \A i \in 1..Len(out) : out[i].pend = 0

C20_Batched ==
    \A i \in 1..Len(batch) :
        \E j \in 1..Len(urefs) : urefs[j].id = batch[i].id

C20_Step ==
    out' # <<>> => (urefs = <<>> /\ batch = <<>>) \/ FlushDone

C20_NoEmissionWhileBatched ==
    /\ []C20_Sent
    /\ []C20_Batched
    /\ [][C20_Step]_vars

\* a flush has sent a descrambled packet and, after it, a packet that was
\* left alone and had waited for the batch
C20_Witness ==
    /\ nb_release = 1
    /\ \E i, j \in 1..Len(out) :
          /\ i < j
          /\ out[i].xf = "bs"
          /\ out[j].kind = "pkt"
          /\ ~out[j].elig
          /\ out[j].keyed
          /\ out[j].pend = 0

\* position in q of the item numbered id, 0 when it is not there
PosOf(q, id) ==
    IF \E k \in 1..Len(q) : q[k].id = id
    THEN CHOOSE k \in 1..Len(q) : q[k].id = id
    ELSE 0

\* a flow definition given with nothing retained is applied and sent before
\* the call returns and is not retained; given with urefs retained it is
\* retained last and nothing is applied
C21_Received ==
    (op' = "set_flow_def" /\ ret' = "NONE")
    => IF urefs = <<>>
       THEN /\ urefs' = <<>>
            /\ Len(out') = 1
            /\ out'[1].kind = "flow"
            /\ out'[1].id = nb_in'
            /\ flow_def' = [lat |-> out'[1].lat]
       ELSE /\ out' = <<>>
            /\ flow_def' = flow_def
            /\ Len(urefs') = Len(urefs) + 1
            /\ urefs'[Len(urefs')].kind = "flow"
            /\ urefs'[Len(urefs')].id = nb_in'

\* a retained flow definition stays as it is until it leaves the retained
\* urefs; it leaves them released unsent, or sent by a completed flush
\* after every uref retained before it and before every one retained after
\* it; and the output flow definition changes only in a call that sends a
\* flow definition, to the last one sent
C21_Held ==
    /\ \A i \in 1..Len(urefs) :
          urefs[i].kind = "flow"
          => \/ i <= Len(urefs') /\ urefs'[i] = urefs[i]
             \/ PosOf(freed', urefs[i].id) > 0 /\ PosOf(out', urefs[i].id) = 0
             \/ /\ FlushDone
                /\ PosOf(out', urefs[i].id) > 0
                /\ \A j \in 1..Len(urefs) :
                      /\ PosOf(out', urefs[j].id) > 0
                      /\ j < i => PosOf(out', urefs[j].id)
                                     < PosOf(out', urefs[i].id)
                      /\ j > i => PosOf(out', urefs[j].id)
                                     > PosOf(out', urefs[i].id)
    /\ flow_def' # flow_def
       => \E i \in 1..Len(out') :
             /\ out'[i].kind = "flow"
             /\ \A j \in 1..Len(out') : j > i => out'[j].kind # "flow"
             /\ flow_def' = [lat |-> out'[i].lat]

\* C21: a flow definition received with nothing retained is applied to the
\* output flow definition before the call returns and is never retained;
\* one received while urefs are retained is not applied until the flush
\* that sends the retained urefs, where it is applied after every uref
\* retained before it has been sent and before any retained after it.
C21_ControlOrder == [][C21_Received /\ C21_Held]_vars

\* a flush has sent a descrambled packet, then a flow definition that was
\* retained behind it, then a packet retained behind the flow definition
C21_Witness ==
    /\ nb_release = 1
    /\ Len(out) = 3
    /\ out[1].kind = "pkt"
    /\ out[1].xf = "bs"
    /\ out[2].kind = "flow"
    /\ out[3].kind = "pkt"
    /\ flow_def = [lat |-> out[2].lat]
    /\ urefs = <<>>

\* C22: in the CSA and AES modes nothing is buffered: the batch and the
\* retained urefs are empty, the pump is not started and the pipe holds no
\* reference on itself; no call takes or releases such a reference or calls
\* the batch cipher; an input call sends or releases its packet before it
\* returns, and a packet that was eligible for descrambling is sent
\* decrypted in place by the cipher of the mode with the key of its parity.
C22_NoBuffering ==
    mode \in {"CSA", "AES"}
    => /\ batch = <<>>
       /\ urefs = <<>>
       /\ ~upump
       /\ SelfRefs = 0
       /\ nb_use = 0
       /\ nb_release = 0
       /\ decrypts = <<>>
       /\ fault = "none"
       /\ op = "input"
          => /\ Len(out) + Len(freed) = 1
             /\ \A i \in 1..Len(out) :
                   /\ out[i].id = nb_in
                   /\ (out[i].keyed /\ out[i].elig)
                      => /\ out[i].xf \in (IF mode = "AES"
                                           THEN {"aes", "aes_err"}
                                           ELSE {"csa"})
                         /\ out[i].key # NULL
                         /\ out[i].key.slot =
                               slot(out[i].sc0 = TS_SCRAMBLING_ODD)
                         /\ out[i].key.gen = key[out[i].key.slot].gen
                         /\ out[i].key.mode = mode
                         /\ out[i].sc = 0
                   /\ ~(out[i].keyed /\ out[i].elig) => Untouched(out[i])

\* in CSA mode a second packet, of odd parity, has been decrypted and sent
\* by the input call
C22_Witness ==
    /\ mode = "CSA"
    /\ op = "input"
    /\ nb_in >= 2
    /\ Len(out) = 1
    /\ out[1].xf = "csa"
    /\ out[1].sc0 = TS_SCRAMBLING_ODD
    /\ out[1].key = key[1]
    /\ urefs = <<>>

\* C23 as stated: a packet whose header announces an adaptation field of
\* AF_LIMIT bytes or more is never sent downstream nor retained to be sent,
\* whatever its scrambling bits, its pid and the keys.
C23_AsStated ==
    /\ \A i \in 1..Len(out) : ~out[i].afbad
    /\ \A i \in 1..Len(urefs) : ~urefs[i].afbad

\* C23 amended: a packet whose header announces an adaptation field of
\* AF_LIMIT bytes or more is released unsent by the input call, with nothing
\* sent, when a key is installed, its header can be read and it is eligible
\* for descrambling; it is never sent or retained then. Otherwise it is
\* sent or retained as it came, like any packet that is left alone.
C23_AfRejected ==
    /\ \A i \in 1..Len(out) :
          out[i].afbad => ~(out[i].keyed /\ out[i].elig) /\ Untouched(out[i])
    /\ \A i \in 1..Len(urefs) :
          urefs[i].afbad
          => ~(urefs[i].keyed /\ urefs[i].elig) /\ Untouched(urefs[i])
    /\ \A i \in 1..Len(freed) :
          (op = "input" /\ freed[i].id = nb_in /\ freed[i].afbad)
          => /\ freed[i].keyed
             /\ freed[i].elig
             /\ Untouched(freed[i])
             /\ out = <<>>
    /\ (op = "input" /\ fault = "none")
       => PosOf(out, nb_in) + PosOf(urefs, nb_in) + PosOf(freed, nb_in) > 0

\* an eligible packet announcing such an adaptation field has been released
\* unsent while another packet was in the batch
C23_Witness ==
    /\ op = "input"
    /\ Len(freed) = 1
    /\ freed[1].id = nb_in
    /\ freed[1].afbad
    /\ freed[1].elig
    /\ freed[1].keyed
    /\ freed[1].hdr
    /\ batch # <<>>
    /\ out = <<>>

\* the header size that goes with what was read of the adaptation field
HeaderOf(x) ==
    IF x.afl = Absent THEN TS_HEADER_SIZE
    ELSE TS_HEADER_SIZE + 1 + (CHOOSE a \in x.afl : TRUE)

\* the payload of a packet given to a cipher starts after a header of 4
\* bytes, or of 4 + 1 + af_length bytes with af_length below AF_LIMIT, and
\* has between 1 and 184 bytes
C24_Payload(x) ==
    /\ x.afl \subseteq 0..(AF_LIMIT - 1)
    /\ x.hs = HeaderOf(x)
    /\ (TS_SIZE - x.hs) \in 1..(TS_SIZE - TS_HEADER_SIZE)

\* C24: every packet given to a cipher, at once or through the batch, has
\* its payload at the header size h that its adaptation field makes, h = 4
\* without one and h = 4 + 1 + af_length with one, af_length being at most
\* 182; the payload has TS_SIZE - h bytes, between 1 and 184; this is the
\* length given to dvbcsa_decrypt and put in the batch, where it never
\* exceeds the maximum length 184 given to dvbcsa_bs_decrypt, and the AES
\* cipher is given no more than it.
C24_PayloadBounds ==
    /\ \A i \in 1..Len(out) :
          out[i].xf # "none"
          => /\ C24_Payload(out[i])
             /\ out[i].xf \in {"csa", "bs"} => out[i].n = TS_SIZE - out[i].hs
             /\ out[i].xf \in {"aes", "aes_err"}
                => out[i].n \in 0..(TS_SIZE - out[i].hs)
    /\ \A i \in 1..Len(batch) :
          \E j \in 1..Len(urefs) :
              /\ urefs[j].id = batch[i].id
              /\ C24_Payload(urefs[j])
              /\ batch[i].hs = urefs[j].hs
              /\ batch[i].len = TS_SIZE - urefs[j].hs
    /\ \A d \in 1..Len(decrypts) :
          /\ decrypts[d].maxlen = TS_SIZE - TS_HEADER_SIZE
          /\ \A k \in 1..Len(decrypts[d].items) :
                /\ decrypts[d].items[k].len = TS_SIZE - decrypts[d].items[k].hs
                /\ decrypts[d].items[k].len \in 1..decrypts[d].maxlen

\* the batch cipher has been given a payload of one byte, behind the
\* longest adaptation field that is taken, and a payload of 184 bytes
C24_Witness ==
    \E d \in 1..Len(decrypts) :
        /\ \E k \in 1..Len(decrypts[d].items) : decrypts[d].items[k].len = 1
        /\ \E k \in 1..Len(decrypts[d].items) :
              decrypts[d].items[k].len = TS_SIZE - TS_HEADER_SIZE
        /\ \E i \in 1..Len(out) :
              out[i].xf = "bs" /\ out[i].afl = Attr(AF_LIMIT - 1)

\* the keys installed, whatever the chaining state of their handles
Installed(k) ==
    [i \in 0..1 |-> IF k[i] = NULL THEN NULL ELSE [k[i] EXCEPT !.iv = "zero"]]

\* an input call in which the AES backend fails sends its packet, and only
\* it, with the scrambling bits at zero, as the next item after those sent
\* before; it returns no error, and leaves the keys installed, the mode and
\* the rest of the pipe as they were
C25_Step ==
    (op' = "input" /\ \E i \in 1..Len(out') : out'[i].xf = "aes_err")
    => /\ Len(out') = 1
       /\ out'[1].id = nb_in'
       /\ nb_in' = nb_in + 1
       /\ out'[1].id > hi'
       /\ out'[1].sc = 0
       /\ out'[1].sc0 \in {TS_SCRAMBLING_EVEN, TS_SCRAMBLING_ODD}
       /\ freed' = <<>>
       /\ ret' = "NONE"
       /\ Installed(key') = Installed(key)
       /\ key'[0] # NULL
       /\ UNCHANGED <<mode, batch, urefs, upump, refcount, pids, flow_def,
                      latency, dead, fault>>
       /\ ~dead' /\ fault' = "none"

\* C25: when the AES backend reports an error on a packet, the packet is
\* still sent, in its place, with its scrambling bits at zero; it is never
\* released unsent nor retained; the keys installed are unchanged, the
\* pipe stays ready for the next packet and the input call returns no
\* error.
C25_AesErrorEmits ==
    /\ [](\A i \in 1..Len(freed) : freed[i].xf # "aes_err")
    /\ [](\A i \in 1..Len(urefs) : urefs[i].xf # "aes_err")
    /\ [][C25_Step]_vars

\* the AES backend has failed on a packet that came after another one had
\* been decrypted with the same key, which is still installed
C25_Witness ==
    /\ op = "input"
    /\ mode = "AES"
    /\ nb_in >= 2
    /\ hi >= 1
    /\ Len(out) = 1
    /\ out[1].xf = "aes_err"
    /\ out[1].sc = 0
    /\ key[0] # NULL
    /\ key[0].gen = out[1].key.gen
    /\ ~dead

\* C26: a flush never releases a reference that was not taken when a uref
\* was first retained: the releases made by upipe_dvbcsa_dec_flush never
\* outnumber the upipe_use calls of the input handler, so the reference
\* count never goes below the number of references external owners hold.
C26_NoOverRelease == refcount >= ext

\* the process has stopped inside dvbcsa_bs_decrypt, before the call in
\* which the flush was made could return
StoppedInCall == fault = "null_key" /\ nb_release = 0

\* C27: when a call has returned, urefs are retained if and only if the
\* batch holds payloads; the oldest retained uref is then a packet whose
\* payload is in the batch; and the batch never holds more payloads than
\* there are retained urefs.
C27_HeldIffBatched ==
    ~StoppedInCall
    => /\ (urefs # <<>>) <=> (batch # <<>>)
       /\ urefs # <<>>
          => /\ Head(urefs).kind = "pkt"
             /\ \E i \in 1..Len(batch) : batch[i].id = Head(urefs).id
       /\ Len(batch) <= Len(urefs)

\* a flow definition and a packet left alone are retained behind a packet
\* whose payload is in the batch
C27_Witness ==
    /\ fault = "none"
    /\ Len(urefs) = 3
    /\ Len(batch) = 1
    /\ batch[1].id = urefs[1].id
    /\ urefs[2].kind = "flow"
    /\ urefs[3].kind = "pkt"
    /\ ~urefs[3].elig

\* C28: every call of dvbcsa_bs_decrypt made by a flush is given the key of
\* an occupied slot, the one of the parity of the batch, whatever SetKey
\* calls came between the batched packets and the flush.
C28_BatchKeyOccupied ==
    \A d \in 1..Len(decrypts) :
        /\ decrypts[d].key # NULL
        /\ decrypts[d].key.slot = slot(decrypts[d].odd)

\* C29: the pipe is not freed while urefs are retained: the reference the
\* pipe holds on itself outlives the references of its owners until a flush
\* has sent every retained uref, so the tear-down finds nothing retained
\* and no payload in the batch, and releases no uref unsent.
C29_NoTearDownWhileHeld == dead => freed = <<>>

\* how many items of q are numbered id
Count(q, id) == Cardinality({k \in 1..Len(q) : q[k].id = id})

\* the items a call has to account for: those retained when it starts and
\* the one it is given
C30_Given ==
    {urefs[i].id : i \in 1..Len(urefs)}
        \cup (IF nb_in' = nb_in + 1 THEN {nb_in'} ELSE {})

\* a call leaves each of these items exactly once among what it sent, what
\* it released unsent and what is retained, and nothing else there
C30_Step ==
    LET all == urefs' \o out' \o freed' IN
    /\ \A id \in C30_Given : Count(all, id) = 1
    /\ \A k \in 1..Len(all) : all[k].id \in C30_Given

\* the payloads in the batch are those of retained packets, one for each
C30_BatchRefs ==
    /\ \A i \in 1..Len(batch) : Count(urefs, batch[i].id) = 1
    /\ \A j \in 1..Len(urefs) : Count(batch, urefs[j].id) <= 1
    /\ \A j \in 1..Len(urefs) :
          Count(batch, urefs[j].id) = 1 => urefs[j].kind = "pkt"

\* C30: no item is lost or duplicated: each item given to the pipe is sent
\* downstream once, released unsent once or retained once, and only one of
\* these; every payload in the batch belongs to a retained packet and no
\* retained packet has two payloads in the batch.
C30_NoLossNoDup ==
    /\ []C30_BatchRefs
    /\ [][C30_Step]_vars

\* ======================================================= ubuf_pic_rgb_to_yuv
\* largest value of a uint8_t
UINT8_MAX == 255
\* what is added to a sum before the shift, and the shift, as a division
YUV_ROUND == 128
YUV_SCALE == 256
\* what is added to the luma and to the chroma components
Y_OFFSET == 16
UV_OFFSET == 128

\* component values tried: the ends of the range, the middle, and the
\* values around which the luma of a grey passes UINT8_MAX
RgbLevels == {0, 1, 128, 239, 240, UINT8_MAX}
\* values of the int fullrange tried
FullRanges == {0, 1, -1}

\* int mat[3 * 3]
mat ==
    <<  66,  129,   25,
       -38,  -74,  112,
       112,  -94,  -18 >>

\* int fullrange_mat[3 * 3]
fullrange_mat ==
    <<  77,  150,   29,
       -43,  -84,  127,
       127, -106,  -21 >>

\* x >> 8 on an int: the arithmetic shift that the compilers of the build
\* make of it, the floor of x / 256
shr8(x) == x \div YUV_SCALE

\* conversion of an int to uint8_t
to_uint8(x) == x % (UINT8_MAX + 1)

\* yuv_i[i], with i counted from 0 as in the code
yuv_i(m, rgb, i) ==
    m[i * 3 + 1] * rgb[1] + m[i * 3 + 2] * rgb[2] + m[i * 3 + 3] * rgb[3]

\* the value computed for component i before it is stored
yuv_value(m, rgb, i) ==
    shr8(yuv_i(m, rgb, i) + YUV_ROUND)
        + (IF i # 0 THEN UV_OFFSET ELSE Y_OFFSET)

\* ubuf_pic_rgb_to_yuv: the values computed and the bytes stored in yuv
ubuf_pic_rgb_to_yuv(rgb, fullrange) ==
    LET m == IF fullrange # 0 THEN fullrange_mat ELSE mat IN
    [value |-> [i \in 0..2 |-> yuv_value(m, rgb, i)],
     yuv |-> [i \in 0..2 |-> to_uint8(yuv_value(m, rgb, i))]]

\* a caller converts a colour
RgbToYuv ==
    \E r \in RgbLevels, g \in RgbLevels, b \in RgbLevels,
       fullrange \in FullRanges :
       /\ op' = "rgb_to_yuv"
       /\ arg' = [rgb |-> <<r, g, b>>, fullrange |-> fullrange,
                  res |-> ubuf_pic_rgb_to_yuv(<<r, g, b>>, fullrange)]
       /\ UNCHANGED <<mode, key, odd, batch, urefs, upump, upump_mgr,
                      refcount, flow_def, latency, pids, dead, nb_in,
                      nb_setkey, out, freed, decrypts, hi, ret, nb_use,
                      nb_release, fault, alloc_flow_def, ext>>

PicNext == RgbToYuv

PicSpec == Init /\ [][PicNext]_vars

\* C31: ubuf_pic_rgb_to_yuv does not wrap around: for every colour with
\* components in 0..255 and for fullrange zero or not, each value computed,
\* ((sum + 128) >> 8) plus 16 for Y and 128 for U and V, is in 0..255 when
\* it is stored in the 8-bit output, which therefore holds that value.
C31_NoWrapAround ==
    op = "rgb_to_yuv"
    => \A i \in 0..2 :
          /\ arg.res.value[i] \in 0..UINT8_MAX
          /\ arg.res.yuv[i] = arg.res.value[i]

====
